---- MODULE Spec2Model ----
(***************************************************************************)
(* A model of mbtool's "utilities" tool (src/mbtool/utilities.cpp):        *)
(* command-line dispatch, device detection and ROM switching, and the      *)
(* generation of the AROMA installer archive from a template tree.         *)
(*                                                                         *)
(* Text (paths, file contents) is a sequence of tokens; a token stands     *)
(* for one character or for one run of characters that no operation of     *)
(* the tool splits (a placeholder, a codename, a ROM id).                  *)
(***************************************************************************)
EXTENDS Integers, Sequences, FiniteSets, TLC

VARIABLES
    argv,           \* the command line: [opts, pos]
    env_props,      \* property store: [product_device, build_product]
    env_db,         \* device definitions file: [status, devices]
    env_fs,         \* stat() result of each boot block device path
    env_tree,       \* template tree, in fts traversal order
    env_roms,       \* installed ROMs, in discovery order
    pc,             \* position of the process
    force,          \* utilities_main: bool force
    devices_file,   \* static const char *devices_file
    usage_stream,   \* stream utilities_usage() wrote to ("none" if not called)
    exit_code,      \* process exit status (-1 while running)
    called,         \* the action functions utilities_main has called
    ret,            \* utilities_main: bool ret
    log,            \* messages written through LOGE/LOGW/LOGD
    detected,       \* utilities_switch_rom: result of get_device()
    device,         \* utilities_switch_rom: Device device
    boot_dev,       \* utilities_switch_rom: *it, the selected boot partition
    engine_calls,   \* calls made to switch_rom()
    engine_ret,     \* SwitchRomResult ret
    gen,            \* the AromaGenerator, its archive and its descriptors
    idx,            \* FtsWrapper: index of _curr in the traversal
    run_ret,        \* FtsWrapper::run: bool ret
    trace,          \* per visited entry, the I/O outcome the visit met
    cfg_in,         \* generate_aroma_config: *data on entry
    cfg_out         \* generate_aroma_config: *data on return

vars == <<argv, env_props, env_db, env_fs, env_tree, env_roms, pc, force,
          devices_file, usage_stream, exit_code, called, ret, log, detected,
          device, boot_dev, engine_calls, engine_ret, gen, idx, run_ret,
          trace, cfg_in, cfg_out>>

-----------------------------------------------------------------------------
(* Bounds of the model *)

MaxOpts == 2
MaxPos == 4
MaxDevices == 3
MaxBootDevs == 3
MaxEntries == 3
MaxRoms == 8
MaxTemplateLen == 3

-----------------------------------------------------------------------------
(* Values *)

NULL == "NULL"
NoPath == "none"

Min(a, b) == IF a < b THEN a ELSE b

RECURSIVE Flatten(_)
Flatten(ss) ==
    IF Len(ss) = 0 THEN <<>>
    ELSE IF Len(ss) = 1 THEN ss[1]
    ELSE LET mid == Len(ss) \div 2
         IN  Flatten(SubSeq(ss, 1, mid)) \o Flatten(SubSeq(ss, mid + 1, Len(ss)))

SeqsUpTo(S, n) == UNION {[1..k -> S] : k \in 0..n}

Contains(s, x) == \E i \in 1..Len(s) : s[i] = x

-----------------------------------------------------------------------------
(* Device detection *)

CodenameLists == {<<>>, <<"x">>, <<"y">>, <<"x", "y">>}
PropValues == {"x", "y", ""}
BootPaths == {"A", "B", "C"}
StatResults == {"absent", "reg", "blk"}
BaseDirs == <<"base1", "base2", "base3", "base4", "base5", "base6">>

DefaultDevice ==
    [codenames |-> <<>>, validate |-> 0, boot_block_devs |-> <<>>,
     block_dev_base_dirs |-> <<>>]

DeviceCores(bootlists) ==
    [codenames : CodenameLists, validate : {0, 1}, boot_block_devs : bootlists]

\* The device at position i of a document gets base directory BaseDirs[i], so
\* that two devices of one document are never the same record.
WithBaseDirs(cores) ==
    [i \in 1..Len(cores) |->
        [codenames |-> cores[i].codenames,
         validate |-> cores[i].validate,
         boot_block_devs |-> cores[i].boot_block_devs,
         block_dev_base_dirs |-> <<BaseDirs[i]>>]]

DeviceLists(n, bootlists) ==
    {WithBaseDirs(c) : c \in SeqsUpTo(DeviceCores(bootlists), n)}

Databases(n, bootlists) ==
    {[status |-> "ok", devices |-> d] : d \in DeviceLists(n, bootlists)}
    \cup {[status |-> "unreadable", devices |-> <<>>],
          [status |-> "malformed", devices |-> <<>>]}

\* The lambda of the find_if over the codenames
codename_matches(item, prop_product_device, prop_build_product) ==
    item = prop_product_device \/ item = prop_build_product

\* The loop over the devices, from device i on
RECURSIVE get_device_loop(_, _, _, _)
get_device_loop(devices, i, pd, bp) ==
    IF i > Len(devices)
    THEN [ok |-> FALSE, device |-> DefaultDevice, log |-> <<"Unknown device">>]
    ELSE IF devices[i].validate # 0
    THEN LET r == get_device_loop(devices, i + 1, pd, bp)
         IN  [r EXCEPT !.log = <<"Skipping invalid device">> \o @]
    ELSE IF \E k \in 1..Len(devices[i].codenames) :
                codename_matches(devices[i].codenames[k], pd, bp)
    THEN [ok |-> TRUE, device |-> devices[i], log |-> <<>>]
    ELSE get_device_loop(devices, i + 1, pd, bp)

get_device_lastmatch(db, props) ==
    LET hits == {i \in 1..Len(db.devices) :
                    /\ db.devices[i].validate = 0
                    /\ \E k \in 1..Len(db.devices[i].codenames) :
                          codename_matches(db.devices[i].codenames[k],
                                           props.product_device,
                                           props.build_product)}
    IN  IF db.status # "ok" \/ hits = {}
        THEN [ok |-> FALSE, device |-> DefaultDevice, log |-> <<"Unknown device">>]
        ELSE [ok |-> TRUE,
              device |-> db.devices[CHOOSE i \in hits : \A j \in hits : j <= i],
              log |-> <<>>]

get_device_fallback(db, props) ==
    IF db.status = "ok" /\ Len(db.devices) > 0
    THEN [ok |-> TRUE, device |-> db.devices[1], log |-> <<>>]
    ELSE [ok |-> FALSE, device |-> DefaultDevice, log |-> <<"Unknown device">>]

get_device(db, props) ==
    IF db.status = "unreadable"
    THEN [ok |-> FALSE, device |-> DefaultDevice, log |-> <<"Failed to read file">>]
    ELSE IF db.status = "malformed"
    THEN [ok |-> FALSE, device |-> DefaultDevice, log |-> <<"Failed to load devices">>]
    ELSE get_device_loop(db.devices, 1, props.product_device, props.build_product)

-----------------------------------------------------------------------------
(* Boot partition selection *)

is_boot_dev_exists(path, fs) == fs[path] # "absent"

\* The lambda of the find_if over the boot block devices
is_boot_dev(path, fs) == fs[path] # "absent" /\ fs[path] = "blk"

\* std::find_if: the first index whose path qualifies, Len + 1 for end()
RECURSIVE find_boot_dev(_, _, _)
find_boot_dev(boot_devs, i, fs) ==
    IF i > Len(boot_devs) THEN i
    ELSE IF is_boot_dev(boot_devs[i], fs) THEN i
    ELSE find_boot_dev(boot_devs, i + 1, fs)

-----------------------------------------------------------------------------
(* Command line *)

ActionNames == {"generate", "switch", "wipe-system", "wipe-cache", "wipe-data",
                "wipe-dalvik-cache", "wipe-multiboot"}
WipeNames == ActionNames \ {"generate", "switch"}
FirstWords == ActionNames \cup {"bogus"}
OptNames == {"f", "d", "h", "?"}
DevicesPath == "devices.json"

\* Positional arguments: nothing, or a first word followed by further words.
\* The second word is the template directory or the ROM id, the third the
\* output file.
SecondWords == {"p", "d/p"}
PosTail == <<"out.zip", "extra", "extra", "extra", "extra">>
Positionals(n) ==
    {<<>>} \cup {<<w>> : w \in FirstWords}
    \cup {<<w, a>> \o SubSeq(PosTail, 1, k) :
            w \in FirstWords, a \in SecondWords, k \in 0..(n - 2)}

CommandLines(maxOpts, maxPos) ==
    [opts : SeqsUpTo(OptNames, maxOpts), pos : Positionals(maxPos)]

\* The getopt_long loop, from option i on
RECURSIVE getopt_loop(_, _, _)
getopt_loop(opts, i, st) ==
    IF i > Len(opts) THEN st
    ELSE IF opts[i] = "f" THEN getopt_loop(opts, i + 1, [st EXCEPT !.force = TRUE])
    ELSE IF opts[i] = "d"
    THEN getopt_loop(opts, i + 1, [st EXCEPT !.devices_file = DevicesPath])
    ELSE IF opts[i] = "h" THEN [st EXCEPT !.stop = "help"]
    ELSE [st EXCEPT !.stop = "error"]

SwitchRomResult == {"Succeeded", "Failed", "ChecksumInvalid", "ChecksumNotFound"}

outcome_name(r) ==
    CASE r = "Succeeded" -> "SUCCEEDED"
      [] r = "Failed" -> "FAILED"
      [] r = "ChecksumInvalid" -> "CHECKSUM_INVALID"
      [] r = "ChecksumNotFound" -> "CHECKSUM_NOT_FOUND"

-----------------------------------------------------------------------------
(* utilities_main: option parsing, argument checks, dispatch *)

usage_error(st) ==
    [force |-> st.force, devices_file |-> st.devices_file,
     usage |-> "stderr", exit |-> 1, next |-> "exit"]

dispatch_target(action) ==
    IF action = "generate" THEN "generate"
    ELSE IF action = "switch" THEN "switch"
    ELSE IF action \in WipeNames THEN "wipe"
    ELSE "unknown"

utilities_main_no_force_check(av) ==
    LET st == getopt_loop(av.opts, 1,
                  [force |-> FALSE, devices_file |-> NULL, stop |-> "none"])
        n == Len(av.pos)
    IN  IF st.stop = "help"
        THEN [force |-> st.force, devices_file |-> st.devices_file,
              usage |-> "stdout", exit |-> 0, next |-> "exit"]
        ELSE IF st.stop = "error" THEN usage_error(st)
        ELSE IF n = 0 THEN usage_error(st)
        ELSE IF \/ (av.pos[1] = "generate" /\ n # 3)
                \/ (av.pos[1] # "generate" /\ n # 2)
        THEN usage_error(st)
        ELSE [force |-> st.force, devices_file |-> st.devices_file,
              usage |-> "none", exit |-> -1, next |-> dispatch_target(av.pos[1])]

\* Lines 478-548 up to the call of the action's function: what the parse
\* leaves in force and devices_file, what it prints, and where it goes next.
utilities_main(av) ==
    LET st == getopt_loop(av.opts, 1,
                  [force |-> FALSE, devices_file |-> NULL, stop |-> "none"])
        n == Len(av.pos)
    IN  IF st.stop = "help"
        THEN [force |-> st.force, devices_file |-> st.devices_file,
              usage |-> "stdout", exit |-> 0, next |-> "exit"]
        ELSE IF st.stop = "error" THEN usage_error(st)
        ELSE IF n = 0 THEN usage_error(st)
        ELSE IF \/ (av.pos[1] = "generate" /\ n # 3)
                \/ (av.pos[1] # "generate" /\ n # 2)
        THEN usage_error(st)
        ELSE IF st.force /\ av.pos[1] # "switch" THEN usage_error(st)
        ELSE [force |-> st.force, devices_file |-> st.devices_file,
              usage |-> "none", exit |-> -1, next |-> dispatch_target(av.pos[1])]

UtilitiesMain ==
    /\ pc = "start"
    /\ LET m == utilities_main(argv)
       IN  /\ force' = m.force
           /\ devices_file' = m.devices_file
           /\ usage_stream' = m.usage
           /\ exit_code' = m.exit
           /\ pc' = m.next
    /\ UNCHANGED <<argv, env_props, env_db, env_fs, env_tree, env_roms, called,
                   ret, log, detected, device, boot_dev, engine_calls,
                   engine_ret, gen, idx, run_ret, trace, cfg_in, cfg_out>>

\* The else branch of the dispatch: no action function is called
UnknownAction ==
    /\ pc = "unknown"
    /\ log' = Append(log, "Unknown action")
    /\ pc' = "return"
    /\ UNCHANGED <<argv, env_props, env_db, env_fs, env_tree, env_roms, force,
                   devices_file, usage_stream, exit_code, called, ret, detected,
                   device, boot_dev, engine_calls, engine_ret, gen, idx,
                   run_ret, trace, cfg_in, cfg_out>>

exit_status(r) == IF r THEN 0 ELSE 1

MainReturn ==
    /\ pc = "return"
    /\ exit_code' = exit_status(ret)
    /\ pc' = "exit"
    /\ UNCHANGED <<argv, env_props, env_db, env_fs, env_tree, env_roms, force,
                   devices_file, usage_stream, called, ret, log, detected,
                   device, boot_dev, engine_calls, engine_ret, gen, idx,
                   run_ret, trace, cfg_in, cfg_out>>

-----------------------------------------------------------------------------
(* utilities_wipe_*: create the ROM, then call the wipe engine *)

Wipe ==
    /\ pc = "wipe"
    /\ \E created \in BOOLEAN, wiped \in BOOLEAN :
          ret' = (created /\ wiped)
    /\ called' = Append(called, argv.pos[1])
    /\ pc' = "return"
    /\ UNCHANGED <<argv, env_props, env_db, env_fs, env_tree, env_roms, force,
                   devices_file, usage_stream, exit_code, log, detected, device,
                   boot_dev, engine_calls, engine_ret, gen, idx, run_ret,
                   trace, cfg_in, cfg_out>>

-----------------------------------------------------------------------------
(* utilities_switch_rom *)

\* Lines 112-122: the devices_file check and the call of get_device
switch_rom_detect(file, db, props) ==
    IF file = NULL
    THEN [ok |-> FALSE, device |-> DefaultDevice,
          log |-> <<"No device definitions file specified">>]
    ELSE LET r == get_device(db, props)
         IN  IF ~r.ok
             THEN [ok |-> FALSE, device |-> DefaultDevice,
                   log |-> r.log \o <<"Failed to detect device">>]
             ELSE r

SwitchRomDetect ==
    /\ pc = "switch"
    /\ called' = Append(called, "switch")
    /\ LET r == switch_rom_detect(devices_file, env_db, env_props)
       IN  /\ detected' = r.ok
           /\ device' = r.device
           /\ log' = log \o r.log
           /\ pc' = IF r.ok THEN "select" ELSE "return"
    /\ UNCHANGED <<argv, env_props, env_db, env_fs, env_tree, env_roms, force,
                   devices_file, usage_stream, exit_code, ret, boot_dev,
                   engine_calls, engine_ret, gen, idx, run_ret, trace, cfg_in,
                   cfg_out>>

\* Lines 124-134
SwitchRomSelect ==
    /\ pc = "select"
    /\ LET boot_devs == device.boot_block_devs
           it == find_boot_dev(boot_devs, 1, env_fs)
       IN  IF it = Len(boot_devs) + 1
           THEN /\ log' = Append(log, "All specified boot partition paths could not be found")
                /\ pc' = "return"
                /\ UNCHANGED boot_dev
           ELSE /\ boot_dev' = boot_devs[it]
                /\ pc' = "engine"
                /\ UNCHANGED log
    /\ UNCHANGED <<argv, env_props, env_db, env_fs, env_tree, env_roms, force,
                   devices_file, usage_stream, exit_code, called, ret, detected,
                   device, engine_calls, engine_ret, gen, idx, run_ret, trace,
                   cfg_in, cfg_out>>

switch_succeeded_unless_failed(r) == r # "Failed"

\* Line 153
switch_succeeded(r) == r = "Succeeded"

\* Lines 136-153: the one call of the switch engine, whose outcome is its own
SwitchRomEngine ==
    /\ pc = "engine"
    /\ \E r \in SwitchRomResult :
          /\ engine_ret' = r
          /\ log' = Append(log, outcome_name(r))
          /\ ret' = switch_succeeded(r)
    /\ engine_calls' = Append(engine_calls,
                              [rom_id |-> argv.pos[2], boot_dev |-> boot_dev,
                               base_dirs |-> device.block_dev_base_dirs,
                               force |-> force])
    /\ pc' = "return"
    /\ UNCHANGED <<argv, env_props, env_db, env_fs, env_tree, env_roms, force,
                   devices_file, usage_stream, exit_code, called, detected,
                   device, boot_dev, gen, idx, run_ret, trace, cfg_in, cfg_out>>

-----------------------------------------------------------------------------
(* generate_aroma_config *)

Digits == <<"0", "1", "2", "3", "4", "5", "6", "7", "8", "9">>

\* format("%zu", n) and format("%d", n) for n >= 0: the decimal digits of n
RECURSIVE format_decimal(_)
format_decimal(n) ==
    IF n < 10 THEN <<Digits[n + 1]>>
    ELSE format_decimal(n \div 10) \o <<Digits[(n % 10) + 1]>>

\* util::replace_all: every occurrence of the token is replaced, left to
\* right, and the replacement is not scanned again
replace_all(source, from, to) ==
    Flatten([i \in 1..Len(source) |->
                IF source[i] = from THEN to ELSE <<source[i]>>])

RomIds == <<"rom1", "rom2", "rom3", "rom4", "rom5", "rom6", "rom7", "rom8",
            "rom9", "rom10", "rom11", "rom12">>
RomNames == <<"N1", "N2", "N3", "N4", "N5", "N6", "N7", "N8", "N9", "N10",
              "N11", "N12">>

\* The n first ROMs; ROM i has no loadable config, a config with an empty
\* name, or a config with a name, in turn, starting from `phase`.
RomRegistry(n, phase) ==
    [i \in 1..n |->
        [id |-> RomIds[i],
         config_loads |-> ((i + phase) % 3 # 0),
         config_name |-> IF (i + phase) % 3 = 2 THEN RomNames[i] ELSE ""]]

RomRegistries(n) == {RomRegistry(k, ph) : k \in 0..n, ph \in 0..2}

\* Lines 219-225
display_name(rom) ==
    IF rom.config_loads /\ rom.config_name # "" THEN rom.config_name ELSE rom.id

\* Line 227
menu_item(name) == <<"\"", name, "\", \"\", \"@default\",\n">>

\* Line 234: the index the selection block of the ROM at zero-based index i
\* compares against
selection_index(i) == i + 2 + 1

\* Lines 229-234
selection_item(i, id, name) ==
    <<"if prop(\"operations.prop\", \"selected\") == \"">>
    \o format_decimal(selection_index(i))
    \o <<"\" then\n    setvar(\"romid\", \"", id,
         "\");\n    setvar(\"romname\", \"", name, "\");\nendif;\n">>

MbtoolVersion == <<"VERSION">>
SystemPartition == <<"/system">>
CachePartition == <<"/cache">>
DataPartition == <<"/data">>
ExtsdPartition == <<"/extsd">>

last_index_counts_roms(roms) == format_decimal(Len(roms))

\* Line 237
first_index == format_decimal(2 + 1)

\* Line 238
last_index(roms) == format_decimal(2 + Len(roms))

generate_aroma_config(data, roms) ==
    LET rom_menu_items ==
            Flatten([i \in 1..Len(roms) |-> menu_item(display_name(roms[i]))])
        rom_selection_items ==
            Flatten([i \in 1..Len(roms) |->
                        selection_item(i - 1, roms[i].id, display_name(roms[i]))])
        s1 == replace_all(data, "\t", <<"\\", "t">>)
        s2 == replace_all(s1, "@MBTOOL_VERSION@", MbtoolVersion)
        s3 == replace_all(s2, "@ROM_MENU_ITEMS@", rom_menu_items)
        s4 == replace_all(s3, "@ROM_SELECTION_ITEMS@", rom_selection_items)
        s5 == replace_all(s4, "@FIRST_INDEX@", first_index)
        s6 == replace_all(s5, "@LAST_INDEX@", last_index(roms))
        s7 == replace_all(s6, "@SYSTEM_MOUNT_POINT@", SystemPartition)
        s8 == replace_all(s7, "@CACHE_MOUNT_POINT@", CachePartition)
        s9 == replace_all(s8, "@DATA_MOUNT_POINT@", DataPartition)
    IN  replace_all(s9, "@EXTSD_MOUNT_POINT@", ExtsdPartition)

GenerateAromaConfig ==
    /\ pc = "config"
    /\ cfg_out' = generate_aroma_config(cfg_in, env_roms)
    /\ pc' = "config_done"
    /\ UNCHANGED <<argv, env_props, env_db, env_fs, env_tree, env_roms, force,
                   devices_file, usage_stream, exit_code, called, ret, log,
                   detected, device, boot_dev, engine_calls, engine_ret, gen,
                   idx, run_ret, trace, cfg_in>>

-----------------------------------------------------------------------------
(* AromaGenerator *)

AromaConfigIn ==
    <<"META-INF", "/", "com", "/", "google", "/", "android", "/", "aroma-config.in">>
AromaConfig ==
    <<"META-INF", "/", "com", "/", "google", "/", "android", "/", "aroma-config">>

BufSize == 32768

\* A path argument of the command line, as its characters
Chars(word) == IF word = "d/p" THEN <<"d", "/", "p">> ELSE <<word>>

NoIo == [fail |-> "none", reads |-> <<>>, wfail |-> 0]

RECURSIVE SumPositive(_)
SumPositive(s) ==
    IF s = <<>> THEN 0
    ELSE (IF Head(s) > 0 THEN Head(s) ELSE 0) + SumPositive(Tail(s))

\* What the successive read() calls on a file of `size` bytes may return:
\* byte counts of at most the buffer's size, then 0 at the end of the file, or
\* -1 at any point.
ReadTraces(size) ==
    {s \in UNION {[1..k -> -1..Min(size, BufSize)] : k \in 1..(size + 1)} :
        /\ \A i \in 1..(Len(s) - 1) : s[i] > 0
        /\ s[Len(s)] <= 0
        /\ SumPositive(s) <= size
        /\ s[Len(s)] = 0 => SumPositive(s) = size}

\* The outcomes of the system and minizip calls of add_file(name, path)
PathIo(content) ==
    {[fail |-> f, reads |-> <<>>, wfail |-> 0] :
        f \in {"open", "fstat", "seek", "zipopen"}}
    \cup UNION {{[fail |-> "none", reads |-> r, wfail |-> w] :
                    w \in 0..(Len(r) - 1)} : r \in ReadTraces(Len(content))}

\* The outcomes of file_read_all and of the minizip calls of add_file(name, data)
DataIo ==
    {[fail |-> f, reads |-> <<>>, wfail |-> 0] :
        f \in {"none", "read", "zipopen", "write"}}

NewGenerator(path, zippath) ==
    [path |-> path, zippath |-> zippath, zf |-> "unset", zip_opens |-> 0,
     zip_closes |-> 0, archive |-> <<>>, open_fds |-> 0]

NoGenerator == NewGenerator(<<>>, "")

\* Lines 264-276
on_pre_execute(g, open_ok) ==
    IF open_ok
    THEN [g |-> [g EXCEPT !.zf = "open", !.zip_opens = @ + 1],
          ok |-> TRUE, log |-> <<>>]
    ELSE [g |-> [g EXCEPT !.zf = "null"],
          ok |-> FALSE, log |-> <<"Failed to open for writing">>]

on_post_execute_on_success_only(g, success, close_ok) ==
    IF success
    THEN [g |-> [g EXCEPT !.zf = "closed", !.zip_closes = @ + 1], ok |-> close_ok]
    ELSE [g |-> g, ok |-> FALSE]

\* Lines 278-282
on_post_execute(g, success, close_ok) ==
    [g |-> [g EXCEPT !.zf = "closed", !.zip_closes = @ + 1], ok |-> close_ok]

\* Lines 323-367. The zip64 flag is left out: it is set from a size of
\* 2^32 - 1 bytes on, which no content of the model reaches.
add_file_data(g, name, contents, io) ==
    LET entry == [name |-> name, content |-> <<>>, external_fa |-> 0]
    IN  IF io.fail = "zipopen"
        THEN [g |-> g, ok |-> FALSE, log |-> <<"minizip: Failed to add file">>]
        ELSE IF io.fail = "write"
        THEN [g |-> [g EXCEPT !.archive = Append(@, entry)],
              ok |-> FALSE, log |-> <<"minizip: Failed to write data">>]
        ELSE [g |-> [g EXCEPT !.archive =
                                Append(@, [entry EXCEPT !.content = contents])],
              ok |-> TRUE, log |-> <<>>]

\* Lines 428-445: the read loop from read number i on, `pos` bytes read and
\* `written` handed to zipWriteInFileInZip so far
RECURSIVE copy_loop(_, _, _, _, _)
copy_loop(content, io, i, pos, written) ==
    LET n == io.reads[i]
    IN  IF n > 0
        THEN IF io.wfail = i
             THEN [ok |-> FALSE, written |-> written,
                   log |-> <<"minizip: Failed to write data">>]
             ELSE copy_loop(content, io, i + 1, pos + n,
                            written \o SubSeq(content, pos + 1, pos + n))
        ELSE IF n < 0
        THEN [ok |-> FALSE, written |-> written, log |-> <<"Failed to read file">>]
        ELSE [ok |-> TRUE, written |-> written, log |-> <<>>]

permission_bits_unshifted(st_mode) == st_mode % 512

\* Line 401
permission_bits(st_mode) == (st_mode % 512) * 65536

\* Lines 369-450. The descriptor that open64 returns is never closed.
add_file_path(g, name, file, io) ==
    LET opened == [g EXCEPT !.open_fds = @ + 1]
        entry == [name |-> name, content |-> <<>>,
                  external_fa |-> permission_bits(file.mode)]
    IN  IF io.fail = "open"
        THEN [g |-> g, ok |-> FALSE, log |-> <<"Failed to open for reading">>]
        ELSE IF io.fail = "fstat"
        THEN [g |-> opened, ok |-> FALSE, log |-> <<"Failed to stat">>]
        ELSE IF io.fail = "seek"
        THEN [g |-> opened, ok |-> FALSE, log |-> <<"Failed to seek">>]
        ELSE IF io.fail = "zipopen"
        THEN [g |-> opened, ok |-> FALSE, log |-> <<"minizip: Failed to add file">>]
        ELSE LET c == copy_loop(file.content, io, 1, 0, <<>>)
             IN  [g |-> [opened EXCEPT !.archive =
                               Append(@, [entry EXCEPT !.content = c.written])],
                  ok |-> c.ok, log |-> c.log]

\* fts_path of an entry, and line 286
entry_name(g, file) ==
    LET fts_path == g.path \o <<"/">> \o file.rel
    IN  SubSeq(fts_path, Len(g.path) + 1 + 1, Len(fts_path))

\* Lines 284-305
on_reached_file(g, file, roms, io) ==
    LET name == entry_name(g, file)
    IN  IF name = AromaConfigIn
        THEN IF io.fail = "read"
             THEN [g |-> g, action |-> "Fail", log |-> <<"Failed to read">>]
             ELSE LET data == generate_aroma_config(file.content, roms)
                      r == add_file_data(g, AromaConfig, data, io)
                  IN  [g |-> r.g, action |-> IF r.ok THEN "Ok" ELSE "Fail",
                       log |-> r.log]
        ELSE LET r == add_file_path(g, name, file, io)
             IN  [g |-> r.g, action |-> IF r.ok THEN "Ok" ELSE "Fail",
                  log |-> r.log]

on_reached_symlink_fails(g) ==
    [g |-> g, action |-> "Fail", log |-> <<"Ignoring symlink when creating zip">>]

\* Lines 307-311
on_reached_symlink(g) ==
    [g |-> g, action |-> "Ok", log |-> <<"Ignoring symlink when creating zip">>]

\* Lines 313-317
on_reached_special_file(g) ==
    [g |-> g, action |-> "Ok", log |-> <<"Ignoring special file when creating zip">>]

\* FtsWrapper's default for the callbacks AromaGenerator does not override
on_reached_directory(g) == [g |-> g, action |-> "Ok", log |-> <<>>]

\* FtsWrapper::run: the callback one entry of the traversal is handed to. With
\* FtsFlag::GroupSpecialFiles every block or character device, FIFO and socket
\* goes to on_reached_special_file.
visit_entry(g, entry, roms, io) ==
    IF entry.kind = "file" THEN on_reached_file(g, entry, roms, io)
    ELSE IF entry.kind = "symlink" THEN on_reached_symlink(g)
    ELSE IF entry.kind \in {"fifo", "blockdev", "chardev", "socket"}
    THEN on_reached_special_file(g)
    ELSE on_reached_directory(g)

IoOutcomes(g, entry) ==
    IF entry.kind # "file" THEN {NoIo}
    ELSE IF entry_name(g, entry) = AromaConfigIn THEN DataIo
    ELSE PathIo(entry.content)

\* Lines 531-533 and FtsWrapper::run up to the traversal: the generator is
\* constructed and on_pre_execute is called; when it fails run returns false.
RunPreExecute ==
    /\ pc = "generate"
    /\ called' = Append(called, "generate")
    /\ \E open_ok \in BOOLEAN :
          LET r == on_pre_execute(NewGenerator(Chars(argv.pos[2]), argv.pos[3]),
                                  open_ok)
          IN  /\ gen' = r.g
              /\ log' = log \o r.log
              /\ pc' = IF r.ok THEN "visit" ELSE "return"
    /\ idx' = 1
    /\ run_ret' = TRUE
    /\ UNCHANGED <<argv, env_props, env_db, env_fs, env_tree, env_roms, force,
                   devices_file, usage_stream, exit_code, ret, detected, device,
                   boot_dev, engine_calls, engine_ret, trace, cfg_in, cfg_out>>

\* FtsWrapper::run: one entry of the traversal. A callback that returns Fail
\* makes the run fail; the traversal then either goes on or ends there.
RunVisit ==
    /\ pc = "visit"
    /\ idx <= Len(env_tree)
    /\ \E io \in IoOutcomes(gen, env_tree[idx]), stop \in BOOLEAN :
          LET r == visit_entry(gen, env_tree[idx], env_roms, io)
              failed == r.action = "Fail"
          IN  /\ gen' = r.g
              /\ log' = log \o r.log
              /\ run_ret' = (run_ret /\ ~failed)
              /\ idx' = IF failed /\ stop THEN Len(env_tree) + 1 ELSE idx + 1
              /\ trace' = Append(trace, [entry |-> idx, io |-> io,
                                         stop |-> failed /\ stop])
    /\ UNCHANGED <<argv, env_props, env_db, env_fs, env_tree, env_roms, pc,
                   force, devices_file, usage_stream, exit_code, called, ret,
                   detected, device, boot_dev, engine_calls, engine_ret, cfg_in,
                   cfg_out>>

\* FtsWrapper::run after the traversal: on_post_execute is called whatever
\* the traversal's result, and run returns false if either failed.
RunPostExecute ==
    /\ pc = "visit"
    /\ idx > Len(env_tree)
    /\ \E close_ok \in BOOLEAN :
          LET r == on_post_execute(gen, run_ret, close_ok)
          IN  /\ gen' = r.g
              /\ ret' = (run_ret /\ r.ok)
    /\ pc' = "return"
    /\ UNCHANGED <<argv, env_props, env_db, env_fs, env_tree, env_roms, force,
                   devices_file, usage_stream, exit_code, called, log, detected,
                   device, boot_dev, engine_calls, engine_ret, idx, run_ret,
                   trace, cfg_in, cfg_out>>

-----------------------------------------------------------------------------
(* Inputs and initial states *)

Core(codenames, validate, boot_devs) ==
    [codenames |-> codenames, validate |-> validate, boot_block_devs |-> boot_devs]

FileA == [kind |-> "file", rel |-> <<"a.txt">>, content |-> <<"h", "i">>,
          mode |-> 33188]
FileB == [kind |-> "file", rel |-> <<"b.sh">>, content |-> <<"x">>,
          mode |-> 35309]
ControlFile == [kind |-> "file", rel |-> AromaConfigIn,
                content |-> <<"@FIRST_INDEX@", ",", "@LAST_INDEX@">>,
                mode |-> 33152]
Symlink == [kind |-> "symlink", rel |-> <<"link">>, content |-> <<>>,
            mode |-> 41471]
Fifo == [kind |-> "fifo", rel |-> <<"pipe">>, content |-> <<>>, mode |-> 4516]
Directory == [kind |-> "dir", rel |-> <<"sub">>, content |-> <<>>,
              mode |-> 16877]

Catalog == {FileA, FileB, ControlFile, Symlink, Fifo, Directory}

\* A tree's entries in traversal order. The directories above an entry are
\* visited too and, like Directory, change nothing.
Trees(n) ==
    {t \in SeqsUpTo(Catalog, n) : \A i, j \in 1..Len(t) : i # j => t[i] # t[j]}

ProgramStart ==
    /\ force = FALSE
    /\ devices_file = NULL
    /\ usage_stream = "none"
    /\ exit_code = -1
    /\ called = <<>>
    /\ ret = FALSE
    /\ log = <<>>
    /\ detected = FALSE
    /\ device = DefaultDevice
    /\ boot_dev = NoPath
    /\ engine_calls = <<>>
    /\ engine_ret = "none"
    /\ gen = NoGenerator
    /\ idx = 0
    /\ run_ret = TRUE
    /\ trace = <<>>
    /\ cfg_out = <<>>

SwitchCommand == [opts |-> <<"d">>, pos |-> <<"switch", "p">>]

\* Every command line, in a few worlds
Init ==
    /\ ProgramStart
    /\ pc = "start"
    /\ cfg_in = <<>>
    /\ argv \in CommandLines(MaxOpts, MaxPos)
    /\ env_props = [product_device |-> "x", build_product |-> ""]
    /\ env_db \in
         {[status |-> "unreadable", devices |-> <<>>],
          [status |-> "ok",
           devices |-> WithBaseDirs(<<Core(<<"y">>, 0, <<"A">>)>>)],
          [status |-> "ok",
           devices |-> WithBaseDirs(<<Core(<<"x">>, 1, <<"A">>),
                                      Core(<<"y", "x">>, 0, <<"A", "B">>)>>)]}
    /\ env_fs \in {[p \in BootPaths |-> IF p = "B" THEN "blk" ELSE "absent"],
                   [p \in BootPaths |-> IF p = "A" THEN "reg" ELSE "absent"]}
    /\ env_tree \in {<<FileA>>, <<Symlink, ControlFile>>}
    /\ env_roms = RomRegistry(2, 0)

\* The switch command, over every device database and runtime identity
InitMatch ==
    /\ ProgramStart
    /\ pc = "start"
    /\ cfg_in = <<>>
    /\ argv = SwitchCommand
    /\ env_props \in [product_device : PropValues, build_product : PropValues]
    /\ env_db \in Databases(MaxDevices, {<<"A">>})
    /\ env_fs = [p \in BootPaths |-> "blk"]
    /\ env_tree = <<>>
    /\ env_roms = <<>>

\* The switch command, over every list of boot devices and every state of
\* their paths
InitBoot ==
    /\ ProgramStart
    /\ pc = "start"
    /\ cfg_in = <<>>
    /\ argv = SwitchCommand
    /\ env_props = [product_device |-> "x", build_product |-> ""]
    /\ env_db \in {[status |-> "ok",
                    devices |-> WithBaseDirs(<<Core(<<"x">>, 0, l)>>)] :
                        l \in SeqsUpTo(BootPaths, MaxBootDevs)}
    /\ env_fs \in [BootPaths -> StatResults]
    /\ env_tree = <<>>
    /\ env_roms = <<>>

\* The generate command, over every template tree
InitBuild ==
    /\ ProgramStart
    /\ pc = "start"
    /\ cfg_in = <<>>
    /\ argv = [opts |-> <<>>, pos |-> <<"generate", "d/p", "out.zip">>]
    /\ env_props = [product_device |-> "", build_product |-> ""]
    /\ env_db = [status |-> "unreadable", devices |-> <<>>]
    /\ env_fs = [p \in BootPaths |-> "absent"]
    /\ env_tree \in Trees(MaxEntries)
    \* the ROMs are read only when the tree holds the control file
    /\ env_roms \in IF Contains(env_tree, ControlFile)
                     THEN {RomRegistry(0, 0), RomRegistry(2, 0)}
                     ELSE {RomRegistry(0, 0)}

TemplateTokens == {"\t", "@MBTOOL_VERSION@", "@ROM_MENU_ITEMS@",
                   "@ROM_SELECTION_ITEMS@", "@FIRST_INDEX@", "@LAST_INDEX@", ","}

\* generate_aroma_config, over every template text and ROM registry
InitConfig ==
    /\ ProgramStart
    /\ pc = "config"
    /\ cfg_in \in SeqsUpTo(TemplateTokens, MaxTemplateLen)
    /\ argv = [opts |-> <<>>, pos |-> <<>>]
    /\ env_props = [product_device |-> "", build_product |-> ""]
    /\ env_db = [status |-> "unreadable", devices |-> <<>>]
    /\ env_fs = [p \in BootPaths |-> "absent"]
    /\ env_tree = <<>>
    /\ env_roms \in RomRegistries(MaxRoms)

NextSwitch ==
    \/ UtilitiesMain
    \/ SwitchRomDetect
    \/ SwitchRomSelect
    \/ SwitchRomEngine
    \/ MainReturn

NextBuild ==
    \/ UtilitiesMain
    \/ RunPreExecute
    \/ RunVisit
    \/ RunPostExecute
    \/ MainReturn

Next ==
    \/ UtilitiesMain
    \/ UnknownAction
    \/ Wipe
    \/ SwitchRomDetect
    \/ SwitchRomSelect
    \/ SwitchRomEngine
    \/ RunPreExecute
    \/ RunVisit
    \/ RunPostExecute
    \/ MainReturn

Spec == Init /\ [][Next]_vars
SpecMatch == InitMatch /\ [][NextSwitch]_vars
SpecBoot == InitBoot /\ [][NextSwitch]_vars
SpecBuild == InitBuild /\ [][NextBuild]_vars
SpecConfig == InitConfig /\ [][GenerateAromaConfig]_vars

-----------------------------------------------------------------------------
(* Device detection and ROM switching: properties *)

AfterDetect == called = <<"switch">> /\ pc \in {"select", "engine", "return", "exit"}

HasCodename(d, props) ==
    \E k \in 1..Len(d.codenames) :
        d.codenames[k] \in {props.product_device, props.build_product}

ValidMatches ==
    {i \in 1..Len(env_db.devices) :
        env_db.devices[i].validate = 0 /\ HasCodename(env_db.devices[i], env_props)}

FirstOf(S) == CHOOSE i \in S : \A j \in S : i <= j

\* C1: get_device returns the device of smallest document-order index among
\* the devices that pass validation and hold product-device or build-product
\* among their codenames; a later match is never returned and a device that
\* fails validation is skipped even when its codenames match.
C1_FirstValidMatchWins ==
    (AfterDetect /\ devices_file # NULL /\ env_db.status = "ok") =>
        IF ValidMatches = {}
        THEN ~detected
        ELSE /\ detected
             /\ device = env_db.devices[FirstOf(ValidMatches)]
             /\ device.block_dev_base_dirs = <<BaseDirs[FirstOf(ValidMatches)]>>

C1_Witness ==
    /\ pc = "exit"
    /\ Len(env_db.devices) = 3
    /\ env_db.devices[1].validate # 0
    /\ HasCodename(env_db.devices[1], env_props)
    /\ ValidMatches = {2, 3}
    /\ detected
    /\ device = env_db.devices[2]

\* C2: when no device of the database holds product-device or build-product
\* among its codenames, get_device fails and the switch action exits nonzero.
C2_NoMatchFails ==
    (/\ AfterDetect
     /\ devices_file # NULL
     /\ \A i \in 1..Len(env_db.devices) : ~HasCodename(env_db.devices[i], env_props))
    => /\ ~detected
       /\ Contains(log, "Failed to detect device")
       /\ engine_calls = <<>>
       /\ pc \in {"return", "exit"}
       /\ ~ret
       /\ pc = "exit" => exit_code # 0

C2_Witness ==
    /\ pc = "exit"
    /\ env_db.status = "ok"
    /\ Len(env_db.devices) = 2
    /\ \A i \in 1..2 : env_db.devices[i].validate = 0
    /\ \A i \in 1..2 : ~HasCodename(env_db.devices[i], env_props)
    /\ ~detected
    /\ exit_code = 1

AfterSelect == AfterDetect /\ detected /\ pc \in {"engine", "return", "exit"}

Qualifying ==
    {i \in 1..Len(device.boot_block_devs) : env_fs[device.boot_block_devs[i]] = "blk"}

\* C3: partition selection picks the first path, in list order, that exists
\* and is a block-special node; a path that exists but is not block-special is
\* passed over; when no path qualifies the switch action fails.
C3_FirstBlockDeviceSelected ==
    AfterSelect =>
        IF Qualifying = {}
        THEN /\ boot_dev = NoPath
             /\ pc # "engine"
             /\ engine_calls = <<>>
             /\ ~ret
             /\ pc = "exit" => exit_code # 0
        ELSE /\ boot_dev = device.boot_block_devs[FirstOf(Qualifying)]
             /\ \A k \in 1..Len(engine_calls) : engine_calls[k].boot_dev = boot_dev

C3_Witness ==
    /\ pc = "exit"
    /\ device.boot_block_devs = <<"A", "B", "C">>
    /\ env_fs["A"] = "absent"
    /\ env_fs["B"] = "reg"
    /\ env_fs["C"] = "blk"
    /\ boot_dev = "C"
    /\ Len(engine_calls) = 1

\* C4: the switch action succeeds if and only if the switch engine was called
\* and returned Succeeded; the engine is called at most once, and never when
\* the database path is missing, no device was matched or no boot partition
\* was selected.
C4_SuccessIffEngineSucceeded ==
    /\ Len(engine_calls) <= 1
    /\ engine_calls # <<>> =>
          /\ called = <<"switch">>
          /\ devices_file # NULL
          /\ detected
          /\ ValidMatches # {}
          /\ boot_dev # NoPath
          /\ Qualifying # {}
    /\ (called = <<"switch">> /\ pc \in {"return", "exit"}) =>
          (ret <=> (Len(engine_calls) = 1 /\ engine_ret = "Succeeded"))
    /\ (called = <<"switch">> /\ pc = "exit") =>
          (exit_code = 0 <=> (Len(engine_calls) = 1 /\ engine_ret = "Succeeded"))

C4_Witness ==
    /\ pc = "exit"
    /\ called = <<"switch">>
    /\ Len(engine_calls) = 1
    /\ engine_ret = "ChecksumNotFound"
    /\ Contains(log, "CHECKSUM_NOT_FOUND")
    /\ exit_code = 1

-----------------------------------------------------------------------------
(* Command line: properties *)

HelpRequested ==
    \E i \in 1..Len(argv.opts) :
        argv.opts[i] = "h" /\ \A j \in 1..(i - 1) : argv.opts[j] # "?"

WrongCount ==
    \/ Len(argv.pos) = 0
    \/ argv.pos[1] = "generate" /\ Len(argv.pos) # 3
    \/ argv.pos[1] # "generate" /\ Len(argv.pos) # 2

ForceOutsideSwitch ==
    /\ Contains(argv.opts, "f")
    /\ Len(argv.pos) = 0 \/ argv.pos[1] # "switch"

Unrecognized == Len(argv.pos) > 0 /\ argv.pos[1] \notin ActionNames

UsageFailure == usage_stream = "stderr" /\ exit_code # 0

\* C9 as stated: a wrong positional-argument count, --force with an action
\* other than switch, or an unrecognized action gives the usage text on the
\* error stream and a nonzero exit, and no action is executed.
C9_Original ==
    (~HelpRequested /\ (WrongCount \/ ForceOutsideSwitch \/ Unrecognized)) =>
        /\ called = <<>>
        /\ pc = "exit" => UsageFailure

\* C9, amended: on a command line that does not ask for help, a wrong
\* positional-argument count or --force with an action other than switch gives
\* the usage text on the error stream and a nonzero exit; an unrecognized
\* action given with exactly one further argument, valid options and no
\* --force gives a logged "Unknown action", no usage text and a nonzero exit;
\* in both cases no action is executed.
C9_UsageOrUnknownAction ==
    ~HelpRequested =>
        /\ (WrongCount \/ ForceOutsideSwitch) =>
              /\ called = <<>>
              /\ pc = "exit" => UsageFailure
        /\ (/\ Unrecognized
            /\ ~WrongCount
            /\ \A i \in 1..Len(argv.opts) : argv.opts[i] = "d") =>
              /\ called = <<>>
              /\ pc = "exit" =>
                    /\ usage_stream = "none"
                    /\ log = <<"Unknown action">>
                    /\ exit_code # 0

C9_Witness ==
    /\ pc = "exit"
    /\ argv = [opts |-> <<"d">>, pos |-> <<"bogus", "p">>]
    /\ usage_stream = "none"
    /\ log = <<"Unknown action">>
    /\ exit_code = 1
    /\ called = <<>>

-----------------------------------------------------------------------------
(* Archive build: properties *)

Building == called = <<"generate">>
Finished == Building /\ pc \in {"return", "exit"}

\* C5: the archive is opened before any entry is traversed and, once opened,
\* is closed exactly once on every exit path, after a successful traversal
\* and after one that an entry failure aborted; a failed traversal makes the
\* build fail.
C5_ArchiveClosedExactlyOnce ==
    /\ gen.zip_opens <= 1
    /\ gen.zip_closes <= gen.zip_opens
    /\ trace # <<>> => gen.zip_opens = 1
    /\ pc = "visit" => gen.zf = "open" /\ gen.zip_closes = 0
    /\ (Finished /\ gen.zip_opens = 1) => gen.zf = "closed" /\ gen.zip_closes = 1
    /\ (Finished /\ ~run_ret) => ~ret
    /\ (Building /\ pc = "exit" /\ ~run_ret) => exit_code # 0

C5_Witness ==
    /\ pc = "exit"
    /\ Len(env_tree) = 3
    /\ Len(trace) = 2
    /\ env_tree[2] = ControlFile
    /\ trace[2].io.fail = "read"
    /\ trace[2].stop
    /\ gen.zip_opens = 1
    /\ gen.zip_closes = 1
    /\ exit_code = 1

IsSkipped(entry) == entry.kind \in {"symlink", "fifo", "blockdev", "chardev", "socket"}

\* The traversal of the tree without its symlinks and special files, every
\* other entry meeting the I/O outcome it met in `tr`: the generator and the
\* run's result after it.
RECURSIVE WithoutSkipped(_, _, _, _)
WithoutSkipped(g, result, tr, i) ==
    IF i > Len(tr) THEN [g |-> g, run_ret |-> result]
    ELSE IF IsSkipped(env_tree[tr[i].entry])
    THEN WithoutSkipped(g, result, tr, i + 1)
    ELSE LET r == visit_entry(g, env_tree[tr[i].entry], env_roms, tr[i].io)
             failed == r.action = "Fail"
         IN  IF failed /\ tr[i].stop
             THEN [g |-> r.g, run_ret |-> FALSE]
             ELSE WithoutSkipped(r.g, result /\ ~failed, tr, i + 1)

\* C6: a symlink or special file never produces an archive entry and never
\* aborts or fails the build: the archive's entries and the build's result
\* are those of the tree with these entries removed.
C6_SymlinksAndSpecialFilesIgnored ==
    (Building /\ gen.zip_opens = 1) =>
        LET start == on_pre_execute(NewGenerator(gen.path, gen.zippath), TRUE).g
            r == WithoutSkipped(start, TRUE, trace, 1)
        IN  /\ gen.archive = r.g.archive
            /\ run_ret = r.run_ret
            /\ \A i \in 1..Len(trace) :
                  IsSkipped(env_tree[trace[i].entry]) => ~trace[i].stop
            /\ \A k \in 1..Len(gen.archive), i \in 1..Len(env_tree) :
                  IsSkipped(env_tree[i]) => gen.archive[k].name # env_tree[i].rel

C6_Witness ==
    /\ pc = "exit"
    /\ env_tree = <<Symlink, Fifo, FileA>>
    /\ Len(trace) = 3
    /\ Len(gen.archive) = 1
    /\ gen.archive[1].name = <<"a.txt">>
    /\ exit_code = 0

RegularFiles == SelectSeq(env_tree, LAMBDA e : e.kind = "file")

\* C7: in a successful build every regular file of the tree produces exactly
\* one archive entry: the aroma-config.in control file is written as
\* aroma-config with the substituted content, and no entry carries the .in
\* path; every other regular file is written at its own relative path with its
\* own content and its permission bits (mode & 0777).
C7_OneEntryPerRegularFile ==
    (Building /\ pc = "exit" /\ exit_code = 0) =>
        /\ Len(gen.archive) = Len(RegularFiles)
        /\ \A k \in 1..Len(gen.archive) :
              LET f == RegularFiles[k]
                  e == gen.archive[k]
              IN  IF f.rel = AromaConfigIn
                  THEN /\ e.name = AromaConfig
                       /\ e.content = generate_aroma_config(f.content, env_roms)
                       /\ e.content = <<"3", ",">> \o
                                      (IF env_roms = <<>> THEN <<"2">> ELSE <<"4">>)
                  ELSE /\ e.name = f.rel
                       /\ e.content = f.content
                       /\ e.external_fa \div 65536 = f.mode % 512
                       /\ e.external_fa % 65536 = 0
        /\ \A k \in 1..Len(gen.archive) : gen.archive[k].name # AromaConfigIn
        /\ env_tree = <<FileA>> =>
              gen.archive = <<[name |-> <<"a.txt">>, content |-> <<"h", "i">>,
                               external_fa |-> 420 * 65536]>>

C7_Witness ==
    /\ pc = "exit"
    /\ exit_code = 0
    /\ env_tree = <<ControlFile, Directory, FileA>>
    /\ env_roms = <<>>
    /\ gen.archive = <<[name |-> AromaConfig, content |-> <<"3", ",", "2">>,
                        external_fa |-> 0],
                       [name |-> <<"a.txt">>, content |-> <<"h", "i">>,
                        external_fa |-> 420 * 65536]>>

\* C10: every source-file descriptor that add_file(name, path) opens is closed
\* before it returns, so that none is open between entries and at the end of
\* a build.
C10_NoOpenDescriptors == Building => gen.open_fds = 0

-----------------------------------------------------------------------------
(* Template substitution: properties *)

NumberText(n) ==
    IF n < 10 THEN <<Digits[n + 1]>>
    ELSE <<Digits[(n \div 10) + 1], Digits[(n % 10) + 1]>>

ExpectedSelection(roms) ==
    Flatten([i \in 1..Len(roms) |->
        <<"if prop(\"operations.prop\", \"selected\") == \"">>
        \o NumberText((i - 1) + 3)
        \o <<"\" then\n    setvar(\"romid\", \"", roms[i].id,
             "\");\n    setvar(\"romname\", \"", display_name(roms[i]),
             "\");\nendif;\n">>])

ExpectedMenu(roms) ==
    Flatten([i \in 1..Len(roms) |->
        <<"\"", display_name(roms[i]), "\", \"\", \"@default\",\n">>])

ExpectedText(token, roms) ==
    CASE token = "@FIRST_INDEX@" -> <<"3">>
      [] token = "@LAST_INDEX@" -> NumberText(2 + Len(roms))
      [] token = "@ROM_SELECTION_ITEMS@" -> ExpectedSelection(roms)
      [] token = "@ROM_MENU_ITEMS@" -> ExpectedMenu(roms)
      [] token = "@MBTOOL_VERSION@" -> MbtoolVersion
      [] token = "\t" -> <<"\\", "t">>
      [] OTHER -> <<token>>

\* C8: for n installed ROMs, substitution replaces @FIRST_INDEX@ by 3 and
\* @LAST_INDEX@ by 2 + n, and the selection block of the ROM at zero-based
\* discovery index i compares against i + 3, in the order of the menu items;
\* `@FIRST_INDEX@,@LAST_INDEX@` with no ROM becomes `3,2`.
C8_IndexesStartAtThree ==
    pc = "config_done" =>
        /\ cfg_out = Flatten([k \in 1..Len(cfg_in) |-> ExpectedText(cfg_in[k], env_roms)])
        /\ (cfg_in = <<"@FIRST_INDEX@", ",", "@LAST_INDEX@">> /\ env_roms = <<>>) =>
              cfg_out = <<"3", ",", "2">>

C8_Witness ==
    /\ pc = "config_done"
    /\ cfg_in = <<"@FIRST_INDEX@", "@LAST_INDEX@", "@ROM_SELECTION_ITEMS@">>
    /\ Len(env_roms) = 8
    /\ SubSeq(cfg_out, 1, 4) = <<"3", "1", "0",
                                 "if prop(\"operations.prop\", \"selected\") == \"">>
    /\ cfg_out[5] = "3"
    /\ cfg_out[7] = "rom1"

====
